---- MODULE Spec2Model ----
(***************************************************************************)
(* Model of cmd/rollout/rollout.go: rolloutClient.Run and the three        *)
(* per-kind restart procedures, driven against a fake cluster API that     *)
(* records every call and injects failures according to a fault plan.      *)
(***************************************************************************)
EXTENDS Integers, Sequences, FiniteSets, TLC

(***************************************************************************)
(* Bounds of the model: calls of Run on one client, length of a namespace  *)
(* listing, injected failures of a plan, clock ticks in a second.          *)
(***************************************************************************)
MaxRuns == 2
MaxNs == 2
MaxFaults == 2
TicksPerSecond == 2

(***************************************************************************)
(* Strings are sequences of one-character strings, so that ToLower and     *)
(* Contains are computed character by character as the Go library does.    *)
(***************************************************************************)
UpperChars == <<"A","B","C","D","E","F","G","H","I","J","K","L","M",
                "N","O","P","Q","R","S","T","U","V","W","X","Y","Z">>
LowerChars == <<"a","b","c","d","e","f","g","h","i","j","k","l","m",
                "n","o","p","q","r","s","t","u","v","w","x","y","z">>

ToLowerChar(c) ==
    IF \E i \in 1..Len(UpperChars) : UpperChars[i] = c
    THEN LowerChars[CHOOSE i \in 1..Len(UpperChars) : UpperChars[i] = c]
    ELSE c

\* strings.ToLower
ToLower(s) == [i \in 1..Len(s) |-> ToLowerChar(s[i])]

\* strings.Contains
Contains(s, substr) ==
    \E i \in 0..(Len(s) - Len(substr)) : SubSeq(s, i + 1, i + Len(substr)) = substr

\* The filter test of the three restart procedures:
\* strings.Contains(strings.ToLower(x.Name), rc.podFilter)
MatchesFilter(name, filter) == Contains(ToLower(name), filter)

(***************************************************************************)
(* The fake cluster: namespaces, workloads and their pod-template          *)
(* annotations.                                                            *)
(***************************************************************************)
\* The order of the procedures as a variant with the first two exchanged.
KindsStatefulSetsFirst == <<"statefulsets", "deployments", "daemonsets">>

Kinds == <<"deployments", "statefulsets", "daemonsets">>
KindSet == {Kinds[i] : i \in 1..Len(Kinds)}

NsNames == {"default", "db"}

RestartKey == "kubectl.kubernetes.io/restartedAt"

EmptyMap == [k \in {} |-> ""]
NilAnnotations == [nil |-> TRUE, kv |-> EmptyMap]
Annotations(m) == [nil |-> FALSE, kv |-> m]

Web == <<"w","e","b">>
DBx == <<"D","B","-","x">>
DbAgent == <<"d","b","-","a","g","e","n","t">>
DbPrimary == <<"d","b","-","p","r","i","m","a","r","y">>
Db0 == <<"d","b","-","0">>
Db1 == <<"d","b","-","1">>
Db2 == <<"d","b","-","2">>

Workload(name, labels, ann) == [name |-> name, labels |-> labels, annotations |-> ann]

\* What the cluster holds before the first run.
InitialCluster ==
    [ns \in NsNames |-> [k \in KindSet |->
        IF ns = "default" /\ k = "deployments" THEN
            << Workload(Web, "app=web", NilAnnotations),
               Workload(DBx, "app=proxy", Annotations([a \in {"team"} |-> "data"])) >>
        ELSE IF ns = "default" /\ k = "daemonsets" THEN
            << Workload(DbAgent, "app=agent", Annotations(EmptyMap)) >>
        ELSE IF ns = "db" /\ k = "deployments" THEN
            << Workload(DbPrimary, "app=db",
                        Annotations([a \in {RestartKey} |-> "T+0s"])) >>
        ELSE IF ns = "db" /\ k = "statefulsets" THEN
            << Workload(Db0, "app=db", NilAnnotations),
               Workload(Db1, "app=db", Annotations([a \in {"team"} |-> "data"])),
               Workload(Db2, "app=db", NilAnnotations) >>
        ELSE << >>]]

\* The filter strings handed to NewRolloutClient.
Filters == { << >>, <<"d","b">>, <<"D","B">> }

\* The namespace listings the cluster may return: no namespace twice.
NsListings ==
    { s \in UNION { [1..n -> NsNames] : n \in 0..MaxNs } :
        \A i, j \in 1..Len(s) : i # j => s[i] # s[j] }

AllListCalls == NsNames \X KindSet
AllUpdateCalls ==
    UNION { { <<ns, k, InitialCluster[ns][k][i].name>> :
                i \in 1..Len(InitialCluster[ns][k]) } : ns \in NsNames, k \in KindSet }

\* The failures the fake cluster injects: the namespace listing, the
\* per-kind listings of chosen (namespace, kind) pairs, the updates of
\* chosen workloads.  Either a few failures, or every call fails.
FaultPlans ==
    { f \in [nsList : {FALSE}, list : SUBSET AllListCalls, update : SUBSET AllUpdateCalls] :
        Cardinality(f.list) + Cardinality(f.update) <= MaxFaults }
        \cup { [nsList |-> FALSE, list |-> AllListCalls, update |-> AllUpdateCalls],
               [nsList |-> FALSE, list |-> {}, update |-> AllUpdateCalls],
               [nsList |-> TRUE, list |-> {}, update |-> {}] }

VARIABLES
    podFilter,    \* rolloutClient.podFilter
    metadata,     \* rolloutClient.metadata
    pc,           \* position of the run: idle, loop, list, range
    namespaces,   \* namespaces.Items of the current run
    nsIdx,        \* index of the namespace being processed
    kind,         \* the kind whose restart procedure is running
    items,        \* the listing being ranged over
    idx,          \* position in items
    count,        \* the local counter of the restart procedure
    ret,          \* what Run returned: none (running or never run), nil, error
    runs,         \* number of calls of Run so far
    now,          \* the clock, in ticks
    cluster,      \* what the cluster holds
    nsListing,    \* what the cluster's namespace listing returns
    faults,       \* the fault plan of the cluster
    calls,        \* the API calls of the current run, as the fake recorded them
    logs,         \* the log lines of the current run
    history       \* calls, logs, metadata and result of the earlier runs

vars == << podFilter, metadata, pc, namespaces, nsIdx, kind, items, idx, count,
           ret, runs, now, cluster, nsListing, faults, calls, logs, history >>

NilMetadata == [nil |-> TRUE]

\* The metadata of a run as a variant that is made once and then kept.
NewMetadataKeepsCounters(t) ==
    IF metadata = NilMetadata
    THEN [ StartTime |-> t, DeploymentsRestarted |-> 0, StatefulSetsRestarted |-> 0,
           DaemonSetsRestarted |-> 0, NamespacesProcessed |-> 0, Errors |-> << >> ]
    ELSE [metadata EXCEPT !.StartTime = t]

\* &rolloutMetadata{StartTime: time.Now(), Errors: []error{}}
NewMetadata(t) ==
    [ StartTime |-> t,
      DeploymentsRestarted |-> 0,
      StatefulSetsRestarted |-> 0,
      DaemonSetsRestarted |-> 0,
      NamespacesProcessed |-> 0,
      Errors |-> << >> ]

\* A sum that leaves the daemonsets out.
totalRestartedNoDaemonSets(rm) == rm.DeploymentsRestarted + rm.StatefulSetsRestarted

totalRestarted(rm) ==
    rm.DeploymentsRestarted + rm.StatefulSetsRestarted + rm.DaemonSetsRestarted

duration(rm, t) == t - rm.StartTime

\* time.Time.Format(time.RFC3339): whole seconds, the fraction is dropped.
FormatRFC3339(t) == "T+" \o ToString(t \div TicksPerSecond) \o "s"

\* NewRolloutClient stores the filter as given; no call has been made.
Init ==
    /\ podFilter \in Filters
    /\ nsListing \in NsListings
    /\ faults \in FaultPlans
    /\ metadata = NilMetadata
    /\ pc = "idle"
    /\ namespaces = << >>
    /\ nsIdx = 0
    /\ kind = "none"
    /\ items = << >>
    /\ idx = 0
    /\ count = 0
    /\ ret = "none"
    /\ runs = 0
    /\ now = 0
    /\ cluster = InitialCluster
    /\ calls = << >>
    /\ logs = << >>
    /\ history = << >>

(***************************************************************************)
(* The fake cluster API.  A call fails or succeeds as the fault plan says, *)
(* the same way in every run, and takes one tick of the clock; time.Now()  *)
(* reads the clock.                                                        *)
(***************************************************************************)
NamespaceListFails == faults.nsList
ListFails(ns, k) == <<ns, k>> \in faults.list
UpdateFails(ns, k, name) == <<ns, k, name>> \in faults.update

ListNamespacesCall(ok) == [op |-> "list-namespaces", ok |-> ok]
ListCall(ns, k, ok, result) ==
    [op |-> "list", ns |-> ns, kind |-> k, ok |-> ok, result |-> result]
UpdateCall(ns, k, obj, ok) == [op |-> "update", ns |-> ns, kind |-> k, obj |-> obj, ok |-> ok]

\* Update replaces the stored object of that name by the submitted one.
Replace(ws, obj) == [i \in 1..Len(ws) |-> IF ws[i].name = obj.name THEN obj ELSE ws[i]]

(***************************************************************************)
(* rolloutMetadata helpers.                                                *)
(***************************************************************************)
CounterOf(rm, k) ==
    CASE k = "deployments"  -> rm.DeploymentsRestarted
      [] k = "statefulsets" -> rm.StatefulSetsRestarted
      [] k = "daemonsets"   -> rm.DaemonSetsRestarted

\* The caller's addition as a variant that assigns (= for +=).
AddCountAssigns(rm, k, n) ==
    CASE k = "deployments"  -> [rm EXCEPT !.DeploymentsRestarted = n]
      [] k = "statefulsets" -> [rm EXCEPT !.StatefulSetsRestarted = n]
      [] k = "daemonsets"   -> [rm EXCEPT !.DaemonSetsRestarted = n]

\* rc.metadata.<Kind>Restarted += n
AddCount(rm, k, n) ==
    CASE k = "deployments"  -> [rm EXCEPT !.DeploymentsRestarted = @ + n]
      [] k = "statefulsets" -> [rm EXCEPT !.StatefulSetsRestarted = @ + n]
      [] k = "daemonsets"   -> [rm EXCEPT !.DaemonSetsRestarted = @ + n]

\* fmt.Errorf("<kind> in %s: %w", ns.Name, err)
KindError(ns, k) == [kind |-> k, ns |-> ns, cause |-> "list failed"]

\* The annotation step as a variant that always starts from a new map.
AnnotateFreshMap(w, t) ==
    [w EXCEPT !.annotations =
        Annotations([a \in {RestartKey} |-> FormatRFC3339(t)])]

\* The annotation step: make the map if it is nil, then set the restart key.
Annotate(w, t) ==
    LET m == IF w.annotations.nil THEN EmptyMap ELSE w.annotations.kv
    IN  [w EXCEPT !.annotations =
            Annotations([a \in DOMAIN m \cup {RestartKey} |->
                            IF a = RestartKey THEN FormatRFC3339(t) ELSE m[a]])]

CurrentNs == namespaces[nsIdx]

\* The record of a finished run, kept when the next one starts.
RunRecord == [ret |-> ret, metadata |-> metadata, calls |-> calls, logs |-> logs]

(***************************************************************************)
(* Run, lines 40-49: fresh metadata, then the namespace listing.           *)
(***************************************************************************)
\* Run as a variant that drops the error of the namespace listing.
RunListFailsIgnored ==
    /\ pc = "idle"
    /\ runs < MaxRuns
    /\ NamespaceListFails
    /\ metadata' = NewMetadata(now)
    /\ calls' = << ListNamespacesCall(FALSE) >>
    /\ logs' = << >>
    /\ ret' = "none"
    /\ runs' = runs + 1
    /\ now' = now + 1
    /\ history' = IF runs > 0 THEN Append(history, RunRecord) ELSE history
    /\ pc' = "loop"
    /\ namespaces' = << >>
    /\ nsIdx' = 0
    /\ kind' = "none"
    /\ items' = << >>
    /\ idx' = 0
    /\ count' = 0
    /\ UNCHANGED << podFilter, cluster, nsListing, faults >>

RunListFails ==
    /\ pc = "idle"
    /\ runs < MaxRuns
    /\ NamespaceListFails
    /\ metadata' = NewMetadata(now)
    /\ calls' = << ListNamespacesCall(FALSE) >>
    /\ logs' = << >>
    /\ ret' = "error"
    /\ runs' = runs + 1
    /\ now' = now + 1
    /\ history' = IF runs > 0 THEN Append(history, RunRecord) ELSE history
    /\ pc' = "idle"
    /\ namespaces' = << >>
    /\ nsIdx' = 0
    /\ kind' = "none"
    /\ items' = << >>
    /\ idx' = 0
    /\ count' = 0
    /\ UNCHANGED << podFilter, cluster, nsListing, faults >>

RunListOK ==
    /\ pc = "idle"
    /\ runs < MaxRuns
    /\ ~NamespaceListFails
    /\ metadata' = NewMetadata(now)
    /\ calls' = << ListNamespacesCall(TRUE) >>
    /\ logs' = << >>
    /\ ret' = "none"
    /\ runs' = runs + 1
    /\ now' = now + 1
    /\ history' = IF runs > 0 THEN Append(history, RunRecord) ELSE history
    /\ pc' = "loop"
    /\ namespaces' = nsListing
    /\ nsIdx' = 0
    /\ kind' = "none"
    /\ items' = << >>
    /\ idx' = 0
    /\ count' = 0
    /\ UNCHANGED << podFilter, cluster, nsListing, faults >>

\* Lines 52-54: the next namespace of the listing.
VisitNamespace ==
    /\ pc = "loop"
    /\ nsIdx < Len(namespaces)
    /\ nsIdx' = nsIdx + 1
    /\ metadata' = [metadata EXCEPT !.NamespacesProcessed = @ + 1]
    /\ logs' = Append(logs, [level |-> "info", msg |-> "Checking namespace",
                             ns |-> namespaces[nsIdx + 1]])
    /\ kind' = Kinds[1]
    /\ pc' = "list"
    /\ UNCHANGED << podFilter, namespaces, items, idx, count, ret, runs, now,
                    cluster, nsListing, faults, calls, history >>

(***************************************************************************)
(* The per-kind restart procedure (restartDeployments, restartStatefulSets,*)
(* restartDaemonSets have the same text up to the kind) and the caller's   *)
(* handling of what it returns.                                            *)
(***************************************************************************)
KindIndex(k) == CHOOSE i \in 1..Len(Kinds) : Kinds[i] = k

\* Where Run continues after the procedure of kind k has returned.
Continue(k) ==
    IF KindIndex(k) < Len(Kinds)
    THEN /\ pc' = "list"
         /\ kind' = Kinds[KindIndex(k) + 1]
    ELSE /\ pc' = "loop"
         /\ kind' = "none"

\* The failed listing as a variant where Run returns the error to its caller.
ListWorkloadsFailsAborts(k) ==
    /\ pc = "list"
    /\ kind = k
    /\ ListFails(CurrentNs, k)
    /\ calls' = Append(calls, ListCall(CurrentNs, k, FALSE, << >>))
    /\ now' = now + 1
    /\ metadata' = [metadata EXCEPT !.Errors = Append(@, KindError(CurrentNs, k))]
    /\ logs' = Append(logs, [level |-> "error", msg |-> "Failed to restart kind",
                             kind |-> k, ns |-> CurrentNs])
    /\ pc' = "idle"
    /\ kind' = "none"
    /\ ret' = "error"
    /\ UNCHANGED << podFilter, namespaces, nsIdx, items, idx, count, runs,
                    cluster, nsListing, faults, history >>

\* The failed listing as a variant where Run gives up the namespace.
ListWorkloadsFailsSkipsNamespace(k) ==
    /\ pc = "list"
    /\ kind = k
    /\ ListFails(CurrentNs, k)
    /\ calls' = Append(calls, ListCall(CurrentNs, k, FALSE, << >>))
    /\ now' = now + 1
    /\ metadata' = [metadata EXCEPT !.Errors = Append(@, KindError(CurrentNs, k))]
    /\ logs' = Append(logs, [level |-> "error", msg |-> "Failed to restart kind",
                             kind |-> k, ns |-> CurrentNs])
    /\ pc' = "loop"
    /\ kind' = "none"
    /\ UNCHANGED << podFilter, namespaces, nsIdx, items, idx, count, ret, runs,
                    cluster, nsListing, faults, history >>

\* The listing fails: the procedure returns (0, err) and Run records it.
ListWorkloadsFails(k) ==
    /\ pc = "list"
    /\ kind = k
    /\ ListFails(CurrentNs, k)
    /\ calls' = Append(calls, ListCall(CurrentNs, k, FALSE, << >>))
    /\ now' = now + 1
    /\ metadata' = [metadata EXCEPT !.Errors = Append(@, KindError(CurrentNs, k))]
    /\ logs' = Append(logs, [level |-> "error", msg |-> "Failed to restart kind",
                             kind |-> k, ns |-> CurrentNs])
    /\ Continue(k)
    /\ UNCHANGED << podFilter, namespaces, nsIdx, items, idx, count, ret, runs,
                    cluster, nsListing, faults, history >>

\* The listing succeeds: count := 0 and the range over the items begins.
ListWorkloadsOK(k) ==
    /\ pc = "list"
    /\ kind = k
    /\ ~ListFails(CurrentNs, k)
    /\ calls' = Append(calls, ListCall(CurrentNs, k, TRUE, cluster[CurrentNs][k]))
    /\ now' = now + 1
    /\ items' = cluster[CurrentNs][k]
    /\ idx' = 1
    /\ count' = 0
    /\ pc' = "range"
    /\ UNCHANGED << podFilter, metadata, namespaces, nsIdx, kind, ret, runs,
                    cluster, nsListing, faults, logs, history >>

\* An item whose name does not pass the filter test.
SkipWorkload(k) ==
    /\ pc = "range"
    /\ kind = k
    /\ idx <= Len(items)
    /\ ~MatchesFilter(items[idx].name, podFilter)
    /\ idx' = idx + 1
    /\ UNCHANGED << podFilter, metadata, pc, namespaces, nsIdx, kind, items, count,
                    ret, runs, now, cluster, nsListing, faults, calls, logs, history >>

\* The failed update as a variant that leaves the range (break for continue).
UpdateWorkloadFailsBreaks(k) ==
    /\ pc = "range"
    /\ kind = k
    /\ idx <= Len(items)
    /\ MatchesFilter(items[idx].name, podFilter)
    /\ UpdateFails(CurrentNs, k, items[idx].name)
    /\ calls' = Append(calls, UpdateCall(CurrentNs, k, Annotate(items[idx], now), FALSE))
    /\ now' = now + 1
    /\ logs' = logs \o
          << [level |-> "info", msg |-> "Restarting workload", kind |-> k,
              ns |-> CurrentNs, name |-> items[idx].name],
             [level |-> "error", msg |-> "Failed to restart workload", kind |-> k,
              ns |-> CurrentNs, name |-> items[idx].name] >>
    /\ idx' = Len(items) + 1
    /\ UNCHANGED << podFilter, metadata, pc, namespaces, nsIdx, kind, items, count,
                    ret, runs, cluster, nsListing, faults, history >>

\* A matching item whose update fails: logged, then continue.
UpdateWorkloadFails(k) ==
    /\ pc = "range"
    /\ kind = k
    /\ idx <= Len(items)
    /\ MatchesFilter(items[idx].name, podFilter)
    /\ UpdateFails(CurrentNs, k, items[idx].name)
    /\ calls' = Append(calls, UpdateCall(CurrentNs, k, Annotate(items[idx], now), FALSE))
    /\ now' = now + 1
    /\ logs' = logs \o
          << [level |-> "info", msg |-> "Restarting workload", kind |-> k,
              ns |-> CurrentNs, name |-> items[idx].name],
             [level |-> "error", msg |-> "Failed to restart workload", kind |-> k,
              ns |-> CurrentNs, name |-> items[idx].name] >>
    /\ idx' = idx + 1
    /\ UNCHANGED << podFilter, metadata, pc, namespaces, nsIdx, kind, items, count,
                    ret, runs, cluster, nsListing, faults, history >>

\* The count after a successful update, as a variant that forgets what was counted.
CountAfterUpdateReset(c) == 1

\* count++
CountAfterUpdate(c) == c + 1

\* A matching item whose update succeeds: count++.
UpdateWorkloadOK(k) ==
    /\ pc = "range"
    /\ kind = k
    /\ idx <= Len(items)
    /\ MatchesFilter(items[idx].name, podFilter)
    /\ ~UpdateFails(CurrentNs, k, items[idx].name)
    /\ calls' = Append(calls, UpdateCall(CurrentNs, k, Annotate(items[idx], now), TRUE))
    /\ cluster' = [cluster EXCEPT ![CurrentNs][k] = Replace(@, Annotate(items[idx], now))]
    /\ now' = now + 1
    /\ logs' = Append(logs, [level |-> "info", msg |-> "Restarting workload", kind |-> k,
                             ns |-> CurrentNs, name |-> items[idx].name])
    /\ count' = CountAfterUpdate(count)
    /\ idx' = idx + 1
    /\ UNCHANGED << podFilter, metadata, pc, namespaces, nsIdx, kind, items,
                    ret, runs, nsListing, faults, history >>

\* The range is over: the procedure returns (count, nil) and Run adds it.
ReturnCount(k) ==
    /\ pc = "range"
    /\ kind = k
    /\ idx > Len(items)
    /\ metadata' = AddCount(metadata, k, count)
    /\ Continue(k)
    /\ UNCHANGED << podFilter, namespaces, nsIdx, items, idx, count, ret, runs, now,
                    cluster, nsListing, faults, calls, logs, history >>

restartKind(k) ==
    \/ ListWorkloadsFails(k)
    \/ ListWorkloadsOK(k)
    \/ SkipWorkload(k)
    \/ UpdateWorkloadFails(k)
    \/ UpdateWorkloadOK(k)
    \/ ReturnCount(k)

restartDeployments == restartKind("deployments")
restartStatefulSets == restartKind("statefulsets")
restartDaemonSets == restartKind("daemonsets")

\* Lines 93-103: the summary line, then return nil.
SummaryLine(rm, t) ==
    [ level |-> "info", msg |-> "Rollout completed",
      total_restarted |-> totalRestarted(rm),
      deployments |-> rm.DeploymentsRestarted,
      statefulsets |-> rm.StatefulSetsRestarted,
      daemonsets |-> rm.DaemonSetsRestarted,
      namespaces_checked |-> rm.NamespacesProcessed,
      errors_count |-> Len(rm.Errors),
      duration |-> duration(rm, t) ]

\* The summary as a variant that leaves the loop after the first namespace.
SummaryAfterFirstNamespace ==
    /\ pc = "loop"
    /\ (nsIdx = Len(namespaces) \/ nsIdx = 1)
    /\ logs' = Append(logs, SummaryLine(metadata, now))
    /\ ret' = "nil"
    /\ pc' = "idle"
    /\ UNCHANGED << podFilter, metadata, namespaces, nsIdx, kind, items, idx, count,
                    runs, now, cluster, nsListing, faults, calls, history >>

Summary ==
    /\ pc = "loop"
    /\ nsIdx = Len(namespaces)
    /\ logs' = Append(logs, SummaryLine(metadata, now))
    /\ ret' = "nil"
    /\ pc' = "idle"
    /\ UNCHANGED << podFilter, metadata, namespaces, nsIdx, kind, items, idx, count,
                    runs, now, cluster, nsListing, faults, calls, history >>

Next ==
    \/ RunListFails
    \/ RunListOK
    \/ VisitNamespace
    \/ restartDeployments
    \/ restartStatefulSets
    \/ restartDaemonSets
    \/ Summary

Spec == Init /\ [][Next]_vars

\* Run is one sequential call: once started, it takes its next step.
RunStep ==
    \/ VisitNamespace
    \/ restartDeployments
    \/ restartStatefulSets
    \/ restartDaemonSets
    \/ Summary

FairSpec == Spec /\ WF_vars(RunStep)

TypeOK ==
    /\ pc \in {"idle", "loop", "list", "range"}
    /\ ret \in {"none", "nil", "error"}
    /\ runs \in 0..MaxRuns

(***************************************************************************)
(* Vocabulary of the properties.                                           *)
(***************************************************************************)
Indices(seq) == 1..Len(seq)

\* The filter test as the specification words it: both sides lowercased.
MatchesCaseInsensitive(name, filter) == Contains(ToLower(name), ToLower(filter))

RunReturned == pc = "idle" /\ runs > 0
RunSucceeded == RunReturned /\ ret = "nil"

IsList(c, ns, k) == c.op = "list" /\ c.ns = ns /\ c.kind = k
IsUpdate(c, ns, k, name) == c.op = "update" /\ c.ns = ns /\ c.kind = k /\ c.obj.name = name

ListCallsOf(cs, ns, k) == { i \in Indices(cs) : IsList(cs[i], ns, k) }
FailedListCalls(cs) == { i \in Indices(cs) : cs[i].op = "list" /\ ~cs[i].ok }
UpdateCallsOf(cs, ns, k, name) == { i \in Indices(cs) : IsUpdate(cs[i], ns, k, name) }
UpdatesOfKind(cs, k, ok) ==
    { i \in Indices(cs) : cs[i].op = "update" /\ cs[i].kind = k /\ cs[i].ok = ok }

IsSummary(l) == l.msg = "Rollout completed"
Summaries(ls) == { i \in Indices(ls) : IsSummary(ls[i]) }

\* C1: at the end of a successful run, a workload of a successful listing
\* received an update call if and only if its lowercased name contains the
\* lowercased filter.
C1_UpdatedIffCaseInsensitiveMatch ==
    RunSucceeded =>
        \A i \in Indices(calls) :
            (calls[i].op = "list" /\ calls[i].ok) =>
                \A j \in Indices(calls[i].result) :
                    LET name == calls[i].result[j].name
                    IN  (UpdateCallsOf(calls, calls[i].ns, calls[i].kind, name) # {})
                            <=> MatchesCaseInsensitive(name, podFilter)

\* C2: when the namespace listing fails, Run has returned an error, the
\* failed listing is the only call of the run, nothing was logged, the
\* counters are zero, the error list is empty and the cluster is untouched.
C2_FatalListingHasNoSideEffects ==
    (calls # << >> /\ ~calls[1].ok) =>
        /\ ret = "error"
        /\ pc = "idle"
        /\ calls = << ListNamespacesCall(FALSE) >>
        /\ logs = << >>
        /\ metadata = NewMetadata(metadata.StartTime)
        /\ totalRestarted(metadata) = 0
        /\ cluster = InitialCluster

C2_Witness ==
    /\ calls = << ListNamespacesCall(FALSE) >>
    /\ ret = "error"
    /\ nsListing # << >>
    /\ podFilter = << >>

\* C3: Run returns an error exactly when the namespace listing failed; when
\* it succeeded a finished run returned nil whatever else failed.
C3_ErrorIffNamespaceListingFails ==
    /\ RunReturned => (ret = "error" <=> ~calls[1].ok)
    /\ RunReturned => (ret = "nil" <=> calls[1].ok)
    /\ ~RunReturned => ret = "none"

C3_Witness ==
    /\ RunSucceeded
    /\ FailedListCalls(calls) # {}
    /\ \E k \in KindSet : UpdatesOfKind(calls, k, FALSE) # {}

C3_WitnessAllFail ==
    /\ RunSucceeded
    /\ Len(namespaces) = MaxNs
    /\ Cardinality(FailedListCalls(calls)) = Len(namespaces) * Len(Kinds)

FailedLists(cs) == SelectSeq(cs, LAMBDA c : c.op = "list" /\ ~c.ok)
Last(seq) == seq[Len(seq)]

\* The last step issued a call of the current run.
Called == runs' = runs /\ Len(calls') = Len(calls) + 1

C4_State ==
    /\ (runs > 0) =>
          \* one error per failed listing, tagged with its namespace and kind
          /\ metadata.Errors = [i \in Indices(FailedLists(calls)) |->
                                   KindError(FailedLists(calls)[i].ns, FailedLists(calls)[i].kind)]
          \* no update of a kind whose listing failed in that namespace
          /\ \A i \in FailedListCalls(calls) : \A j \in Indices(calls) :
                ~(calls[j].op = "update" /\ calls[j].ns = calls[i].ns
                                         /\ calls[j].kind = calls[i].kind)
    /\ RunSucceeded =>
          \* every kind of every listed namespace was listed, once
          /\ \A n \in Indices(namespaces) : \A k \in KindSet :
                Cardinality(ListCallsOf(calls, namespaces[n], k)) = 1
          /\ Last(logs).errors_count = Cardinality(FailedListCalls(calls))

C4_Step ==
    (Called /\ Last(calls').op = "list" /\ ~Last(calls').ok) =>
        metadata' = [metadata EXCEPT
                        !.Errors = Append(@, KindError(Last(calls').ns, Last(calls').kind))]

\* C4: a failed listing of kind K in namespace ns appends exactly one error
\* tagged (ns, K) and changes no counter, no update of K is issued in ns,
\* the other kinds and the later namespaces are still listed, and the error
\* count of the summary is the number of failed listings.
C4_ListFailureIsRecordedAndIsolated == []C4_State /\ [][C4_Step]_vars

C4_Witness ==
    /\ RunSucceeded
    /\ Len(namespaces) = 2
    /\ \E i \in FailedListCalls(calls) :
          calls[i].ns = namespaces[1] /\ calls[i].kind = "deployments"
    /\ \E j \in Indices(calls) :
          calls[j].op = "update" /\ calls[j].ok /\ calls[j].ns = namespaces[1]
    /\ \E j \in Indices(calls) :
          /\ calls[j].op = "update" /\ calls[j].ok
          /\ calls[j].ns = namespaces[2] /\ calls[j].kind = "deployments"
    /\ Len(metadata.Errors) = 1

PositionOf(ws, name) == CHOOSE q \in Indices(ws) : ws[q].name = name
FailureLines(ls, ns, k, name) ==
    { x \in Indices(ls) : /\ ls[x].level = "error"
                          /\ ls[x].msg = "Failed to restart workload"
                          /\ ls[x].ns = ns /\ ls[x].kind = k /\ ls[x].name = name }

C5_State ==
    RunSucceeded =>
        /\ \A i \in Indices(calls) : (calls[i].op = "update" /\ ~calls[i].ok) =>
              LET c == calls[i]
                  l == CHOOSE x \in ListCallsOf(calls, c.ns, c.kind) : TRUE
                  res == calls[l].result
              IN  \* the later matching items of the listing are still updated
                  /\ \A q \in (PositionOf(res, c.obj.name) + 1)..Len(res) :
                        MatchesCaseInsensitive(res[q].name, podFilter) =>
                            \E j \in Indices(calls) :
                                j > i /\ IsUpdate(calls[j], c.ns, c.kind, res[q].name)
                  \* the procedure returned a nil error: nothing recorded
                  /\ \A e \in Indices(metadata.Errors) :
                        ~(metadata.Errors[e].ns = c.ns /\ metadata.Errors[e].kind = c.kind)
                  /\ Cardinality(FailureLines(logs, c.ns, c.kind, c.obj.name)) = 1
        \* what is counted is the successful updates
        /\ \A k \in KindSet :
              CounterOf(metadata, k) = Cardinality(UpdatesOfKind(calls, k, TRUE))

C5_Step ==
    (Called /\ Last(calls').op = "update" /\ ~Last(calls').ok) =>
        /\ count' = count
        /\ metadata' = metadata
        /\ pc' = "range"
        /\ idx' = idx + 1
        /\ Len(logs') = Len(logs) + 2
        /\ Last(logs').level = "error"

\* C5: a failed update is not counted and not recorded in the error list,
\* logs one failure line, and the later matching workloads of the same
\* listing are still updated and counted.
C5_UpdateFailureIsLoggedAndSkipped == []C5_State /\ [][C5_Step]_vars

C5_Witness ==
    /\ RunSucceeded
    /\ metadata.StatefulSetsRestarted = 2
    /\ metadata.Errors = << >>
    /\ \E i \in UpdatesOfKind(calls, "statefulsets", FALSE) :
          /\ calls[i].obj.name = Db0
          /\ \E j \in UpdatesOfKind(calls, "statefulsets", TRUE) : j > i

Updates(cs) == SelectSeq(cs, LAMBDA c : c.op = "update")
\* The workloads a run submitted, in order, with the outcome of each call.
Submitted(cs) ==
    [i \in Indices(Updates(cs)) |->
        << Updates(cs)[i].ns, Updates(cs)[i].kind, Updates(cs)[i].obj.name, Updates(cs)[i].ok >>]
Counts(rm) ==
    << rm.DeploymentsRestarted, rm.StatefulSetsRestarted, rm.DaemonSetsRestarted,
       rm.NamespacesProcessed, Len(rm.Errors) >>
SummaryCounts(l) ==
    << l.total_restarted, l.deployments, l.statefulsets, l.daemonsets,
       l.namespaces_checked, l.errors_count >>

SameAsRunBefore(prev, cur) ==
    /\ Submitted(cur.calls) = Submitted(prev.calls)
    /\ Counts(cur.metadata) = Counts(prev.metadata)
    /\ cur.ret = prev.ret
    /\ cur.ret = "nil" => SummaryCounts(Last(cur.logs)) = SummaryCounts(Last(prev.logs))

\* C6: a run repeated against the same cluster submits the same workloads
\* as the run before it, and its counts equal those of the run before.
C6_SecondRunRepeatsTheFirst ==
    /\ (RunReturned /\ history # << >>) => SameAsRunBefore(Last(history), RunRecord)
    /\ \A h \in 2..Len(history) : SameAsRunBefore(history[h - 1], history[h])

C6_Witness ==
    /\ RunSucceeded
    /\ history # << >>
    /\ metadata.DeploymentsRestarted > 0
    /\ \E i \in Indices(calls) :
          /\ calls[i].op = "list" /\ calls[i].ok
          /\ \E j \in Indices(calls[i].result) :
                /\ ~calls[i].result[j].annotations.nil
                /\ RestartKey \in DOMAIN calls[i].result[j].annotations.kv
                /\ UpdateCallsOf(calls, calls[i].ns, calls[i].kind,
                                 calls[i].result[j].name) # {}
                /\ UpdateCallsOf(Last(history).calls, calls[i].ns, calls[i].kind,
                                 calls[i].result[j].name) # {}

\* C7: the total is the sum of the three per-kind counters in every state
\* of a run and in the summary line; it is 0 with them when nothing was
\* restarted.
C7_TotalIsSumOfKinds ==
    /\ (runs > 0) =>
          totalRestarted(metadata) =
              metadata.DeploymentsRestarted + metadata.StatefulSetsRestarted
                  + metadata.DaemonSetsRestarted
    /\ \A i \in Summaries(logs) :
          /\ logs[i].total_restarted =
                logs[i].deployments + logs[i].statefulsets + logs[i].daemonsets
          /\ (Updates(calls) = << >>) => SummaryCounts(logs[i])[1] = 0

C7_Witness ==
    /\ RunSucceeded
    /\ Last(logs).deployments > 0
    /\ Last(logs).statefulsets > 0
    /\ Last(logs).daemonsets > 0

C7_WitnessZero ==
    /\ RunSucceeded
    /\ namespaces = << >>
    /\ Last(logs).total_restarted = 0

IsPrefix(a, b) == Len(a) <= Len(b) /\ SubSeq(b, 1, Len(a)) = a

C8_Step ==
    (runs' = runs /\ runs > 0) =>
        /\ \A k \in KindSet : CounterOf(metadata', k) >= CounterOf(metadata, k)
        /\ metadata'.NamespacesProcessed >= metadata.NamespacesProcessed
        /\ IsPrefix(metadata.Errors, metadata'.Errors)

\* C8: within a run no counter decreases from one step to the next and the
\* error list only grows at its end.
C8_CountersAndErrorsOnlyGrow == [][C8_Step]_vars

C8_Witness ==
    /\ pc = "range"
    /\ nsIdx = 2
    /\ metadata.StatefulSetsRestarted > 0
    /\ Len(metadata.Errors) = 2

OKUpdatesOf(ns, k, name) == { i \in UpdateCallsOf(calls, ns, k, name) : calls[i].ok }
ListedOK(ns, k) == \E i \in ListCallsOf(calls, ns, k) : calls[i].ok

\* C9: at the summary each per-kind counter is the number of successful
\* update calls of that kind; a workload counts once if its listing
\* succeeded, its name passed the filter test and its update succeeded,
\* and not at all otherwise.
C9_CountersCountSuccessfulUpdates ==
    RunSucceeded =>
        /\ \A k \in KindSet :
              /\ CounterOf(metadata, k) = Cardinality(UpdatesOfKind(calls, k, TRUE))
              /\ CounterOf(metadata, k) =
                    Cardinality({ <<calls[i].ns, calls[i].obj.name>> :
                                    i \in UpdatesOfKind(calls, k, TRUE) })
        /\ SummaryCounts(Last(logs)) =
              << totalRestarted(metadata) >> \o Counts(metadata)
        /\ \A ns \in NsNames, k \in KindSet : \A w \in Indices(cluster[ns][k]) :
              LET name == cluster[ns][k][w].name
              IN  /\ Cardinality(OKUpdatesOf(ns, k, name)) =
                        IF /\ ListedOK(ns, k)
                           /\ MatchesFilter(name, podFilter)
                           /\ ~UpdateFails(ns, k, name)
                        THEN 1 ELSE 0
                  /\ (OKUpdatesOf(ns, k, name) # {}) =>
                        MatchesCaseInsensitive(name, podFilter)

C9_Witness ==
    /\ RunSucceeded
    /\ Len(namespaces) = 2
    /\ metadata.DeploymentsRestarted = 2
    /\ metadata.StatefulSetsRestarted = 2
    /\ UpdatesOfKind(calls, "statefulsets", FALSE) # {}
    /\ FailedListCalls(calls) # {}

C10_State ==
    /\ Cardinality(Summaries(logs)) <= 1
    /\ (Summaries(logs) # {}) <=> RunSucceeded
    /\ RunSucceeded =>
          /\ IsSummary(Last(logs))
          /\ Last(logs).namespaces_checked = Len(nsListing)
          \* the scans of every listed namespace are over
          /\ \A n \in Indices(nsListing) : \A k \in KindSet :
                /\ ListCallsOf(calls, nsListing[n], k) # {}
                /\ \A w \in Indices(cluster[nsListing[n]][k]) :
                      (ListedOK(nsListing[n], k)
                         /\ MatchesFilter(cluster[nsListing[n]][k][w].name, podFilter))
                      => UpdateCallsOf(calls, nsListing[n], k,
                                       cluster[nsListing[n]][k][w].name) # {}
          /\ (nsListing = << >>) =>
                /\ SummaryCounts(Last(logs)) = << 0, 0, 0, 0, 0, 0 >>
                /\ Len(calls) = 1

\* after the summary the run issues no call and logs nothing
C10_Step ==
    (Summaries(logs) # {} /\ runs' = runs) => (calls' = calls /\ logs' = logs)

\* C10: a run whose namespace listing succeeded ends, having emitted one
\* summary after the scans of the last namespace, and the summary's
\* namespaces-processed is the length of the listing.
C10_RunEndsWithOneSummary ==
    /\ []C10_State
    /\ [][C10_Step]_vars
    /\ ((pc # "idle") ~> (RunSucceeded /\ Cardinality(Summaries(logs)) = 1))

C10_Witness ==
    /\ RunSucceeded
    /\ Last(logs).namespaces_checked = MaxNs
    /\ Last(logs).total_restarted > 0

C10_WitnessEmpty ==
    /\ RunSucceeded
    /\ nsListing = << >>
    /\ Last(logs).namespaces_checked = 0

\* The order the claim gives the kinds.
KindOrder(k) ==
    CASE k = "deployments"  -> 1
      [] k = "statefulsets" -> 2
      [] k = "daemonsets"   -> 3

NsPosition(ns) == CHOOSE n \in Indices(nsListing) : nsListing[n] = ns

\* Where a call stands: namespace in listing order, then kind, then the
\* list call (0) before the updates in the order of the listing.
Rank(cs, c) ==
    << NsPosition(c.ns), KindOrder(c.kind),
       IF c.op = "list" THEN 0
       ELSE PositionOf(cs[CHOOSE l \in ListCallsOf(cs, c.ns, c.kind) : TRUE].result,
                       c.obj.name) >>

Before(a, b) ==
    \/ a[1] < b[1]
    \/ a[1] = b[1] /\ a[2] < b[2]
    \/ a[1] = b[1] /\ a[2] = b[2] /\ a[3] < b[3]

C11_State ==
    /\ (calls # << >>) =>
          /\ calls[1].op = "list-namespaces"
          /\ \A i \in 2..Len(calls) :
                /\ calls[i].op \in {"list", "update"}
                /\ \E n \in Indices(nsListing) : nsListing[n] = calls[i].ns
          \* an update follows the successful listing that returned its workload
          /\ \A i \in 2..Len(calls) : (calls[i].op = "update") =>
                \E j \in 2..(i - 1) :
                    /\ IsList(calls[j], calls[i].ns, calls[i].kind)
                    /\ calls[j].ok
                    /\ \E q \in Indices(calls[j].result) :
                          calls[j].result[q].name = calls[i].obj.name
          \* each call stands before the next: strictly ordered (Before is
          \* transitive), hence no call twice
          /\ \A i \in 2..(Len(calls) - 1) :
                Before(Rank(calls, calls[i]), Rank(calls, calls[i + 1]))
    /\ RunSucceeded =>
          \A n \in Indices(nsListing) : \A k \in KindSet :
              Cardinality(ListCallsOf(calls, nsListing[n], k)) = 1

\* C11: the calls of a run are strictly ordered by namespace (in listing
\* order), then kind (deployments, statefulsets, daemonsets), then the list
\* call before its updates in listing order; every (namespace, kind) is
\* listed once and no workload gets a second update call, failed or not.
C11_CallsAreOrderedAndNotRepeated == C11_State

C11_Witness ==
    /\ RunSucceeded
    /\ Len(namespaces) = 2
    /\ \E i, j \in Indices(calls) :
          /\ i < j
          /\ calls[i].op = "update" /\ ~calls[i].ok
          /\ calls[j].op = "update" /\ calls[j].ok
          /\ calls[i].ns = calls[j].ns /\ calls[i].kind = calls[j].kind
    /\ \A n \in Indices(namespaces) :
          \E i \in Indices(calls) : calls[i].op = "update" /\ calls[i].ns = namespaces[n]

\* The workload as the listing of its kind returned it to the run.
Listed(cs, c) ==
    LET res == cs[CHOOSE l \in ListCallsOf(cs, c.ns, c.kind) : TRUE].result
    IN  res[PositionOf(res, c.obj.name)]

KeysOf(w) == IF w.annotations.nil THEN {} ELSE DOMAIN w.annotations.kv

\* obj is the listed workload with the restart key set to the time t.
OnlyRestartAnnotationSet(listed, obj, t) ==
    /\ obj.name = listed.name
    /\ obj.labels = listed.labels
    /\ ~obj.annotations.nil
    /\ DOMAIN obj.annotations.kv = KeysOf(listed) \cup {RestartKey}
    /\ obj.annotations.kv[RestartKey] = FormatRFC3339(t)
    /\ \A a \in KeysOf(listed) \ {RestartKey} :
          obj.annotations.kv[a] = listed.annotations.kv[a]

C12_Step ==
    /\ (Called /\ Last(calls').op = "update") =>
          LET c == Last(calls')
          IN  /\ OnlyRestartAnnotationSet(Listed(calls', c), c.obj, now)
              \* accepted: the stored object of that name becomes the submitted one
              /\ c.ok => cluster' = [cluster EXCEPT ![c.ns][c.kind] =
                            [w \in Indices(@) |->
                                IF @[w].name = c.obj.name THEN c.obj ELSE @[w]]]
              \* refused: the cluster keeps what it had
              /\ ~c.ok => cluster' = cluster
    \* no other step touches the cluster
    /\ ~(Called /\ Last(calls').op = "update") => cluster' = cluster

C12_State ==
    \A ns \in NsNames, k \in KindSet : \A w \in Indices(cluster[ns][k]) :
        LET name == InitialCluster[ns][k][w].name
        IN  /\ cluster[ns][k][w].name = name
            /\ (~MatchesCaseInsensitive(name, podFilter) \/ UpdateFails(ns, k, name))
                  => cluster[ns][k][w] = InitialCluster[ns][k][w]
            /\ cluster[ns][k][w].labels = InitialCluster[ns][k][w].labels
            /\ \A a \in KeysOf(InitialCluster[ns][k][w]) \ {RestartKey} :
                  /\ a \in KeysOf(cluster[ns][k][w])
                  /\ cluster[ns][k][w].annotations.kv[a]
                        = InitialCluster[ns][k][w].annotations.kv[a]
            /\ KeysOf(cluster[ns][k][w]) \subseteq
                  KeysOf(InitialCluster[ns][k][w]) \cup {RestartKey}

\* C12: every submitted object is the listed workload with the annotation
\* map present and the restart key set to the current time, nothing else
\* changed; the cluster changes only by an accepted update, and a workload
\* that does not match or whose update fails stays as it was.
C12_OnlyTheRestartAnnotationChanges == []C12_State /\ [][C12_Step]_vars

C12_Witness ==
    /\ RunSucceeded
    /\ cluster["default"]["deployments"][1] = InitialCluster["default"]["deployments"][1]
    /\ KeysOf(cluster["default"]["deployments"][2]) = {"team", RestartKey}
    /\ \E i \in UpdatesOfKind(calls, "statefulsets", FALSE) :
          cluster["db"]["statefulsets"][1] = InitialCluster["db"]["statefulsets"][1]
    /\ ~cluster["db"]["statefulsets"][3].annotations.nil
    /\ cluster["db"]["deployments"][1].annotations.kv[RestartKey] # "T+0s"
====
